---- MODULE Spec2Model ----
(***************************************************************************)
(* Personalized all-to-all exchange on a ring (alltoall_personalized.c).   *)
(* Every rank runs all_to_all_personalized over a point-to-point           *)
(* transport; the model keeps one copy of the function's locals per rank   *)
(* and one FIFO queue per ordered pair of ranks.                           *)
(***************************************************************************)
EXTENDS Integers, Sequences, FiniteSets, Bags, TLC

\* ------------------------------------------------------------------ bounds
MaxN == 4        \* largest number of processes explored
MaxVal == 2      \* moduli of the input matrices with repeated values
MaxTick == 2     \* longest duration of one call on the logical clock
MaxLen == 4      \* capacity of the arrays compact_array is called on alone
MaxElem == 3     \* largest element of those arrays

\* Content of an int that has been declared but not yet assigned
\* (res_arr in main, buf in all_to_all_personalized).
Unset == 0

VARIABLES
    num_proc,    \* MPI_Comm_size
    msg_arr,     \* msg_arr[rank][k]: value rank addresses to k
    res_arr,     \* res_arr[rank][k]: value rank got from k
    buf,         \* buf[rank]: int buf[num_proc - 1], indexed from 0
    round,       \* the loop variable i of the round loop, per rank
    pc,          \* position of each rank: "init", "send", "recv", "done"
    chan,        \* chan[src][dst]: messages sent by src to dst, not yet received
    status,      \* element count of the last message MPI_Recv stored, per rank
    writes,      \* writes[rank][k]: number of assignments made to res_arr[k]
    nsent,       \* number of MPI_Send calls completed, per rank
    nrecv,       \* number of MPI_Recv calls completed, per rank
    now,         \* MPI_Wtime() as each rank reads it (logical clock)
    dur,         \* duration of one MPI_Send, print_msg and MPI_Recv call
    time_taken,  \* the local time_taken, per rank
    disp_time,   \* the local disp_time, per rank
    comm,        \* time really spent inside MPI_Send and MPI_Recv, per rank
    sent,        \* sent[rank]: the MPI_Send calls of rank so far, in order
    rcvd,        \* rcvd[rank]: the MPI_Recv calls of rank so far, in order
    mode,        \* how MPI_Send blocks: "eager" or "rendezvous"
    lost,        \* the messages the transport has dropped
    probe        \* arguments and result of a call of compact_array on its own

vars == <<num_proc, msg_arr, res_arr, buf, round, pc, chan, status, writes,
          nsent, nrecv, now, dur, time_taken, disp_time, comm, sent, rcvd,
          mode, lost, probe>>

Ranks == 0 .. (num_proc - 1)

\* ------------------------------------------------------------------ inputs
Scales == {1, 10}
DurKeys == {"send", "print", "recv"}

\* All-distinct matrix; Scale 1 stays in main's range 1 .. num_proc^2.
DistinctMsg(n, s) ==
    [a \in 0 .. (n - 1) |-> [b \in 0 .. (n - 1) |-> s * (a * n + b + 1)]]

\* Matrix with repeated values, as rand() % limit + 1 can produce.
ModMsg(n, v) ==
    [a \in 0 .. (n - 1) |-> [b \in 0 .. (n - 1) |-> ((a * n + b) % v) + 1]]

MsgInputs(n) ==
    {DistinctMsg(n, s) : s \in Scales} \cup {ModMsg(n, v) : v \in 1 .. MaxVal}

\* ------------------------------------------------------- pure computations
\* Variant: skips a rank.
SendTo_Skip(rank, n) == (rank + 2) % n

\* Variant: the destination is the rank itself.
SendTo_Self(rank, n) == rank

SendTo(rank, n) == (rank + 1) % n

\* Variant: receives from the successor instead of the predecessor.
RecvFrom_Successor(rank, n) == (rank + 1) % n

RecvFrom(rank, n) == (rank + n - 1) % n

\* Variant: one element short.
MsgSize_Short(n, i) == n - i - 1

MsgSize(n, i) == n - i

\* Variant: the round index is left out, the origin is always the predecessor.
Origin_Fixed(n, rank, i) == (n + rank - 1) % n

\* Variant: counts the ring in the direction of the sends.
Origin_Forward(n, rank, i) == (rank + i) % n

Origin(n, rank, i) == (n + rank - i) % n

\* Variant: always takes the front element.
DataIndex_Front(origin, rank) == 0

\* Variant: falls back to the own rank instead of the front.
DataIndex_OwnRank(origin, rank) == IF origin <= rank THEN origin ELSE rank

DataIndex(origin, rank) == IF origin <= rank THEN origin ELSE 0

\* The loop of compact_array from index i on: arr[i-1] = arr[i] while i < size.
RECURSIVE CompactFrom(_, _, _)
CompactFrom(i, arr, size) ==
    IF i < size
    THEN CompactFrom(i + 1, [arr EXCEPT ![i - 1] = arr[i]], size)
    ELSE arr

\* Variant: starts one slot late, so removes the element after idx.
compact_array_Late(idx, arr, size) == CompactFrom(idx + 2, arr, size)

\* Variant: the loop starts at 1 whatever idx is, so removes element 0.
compact_array_Whole(idx, arr, size) == CompactFrom(1, arr, size)

compact_array(idx, arr, size) == CompactFrom(idx + 1, arr, size)

\* The indexes the loop of compact_array reads (i) and writes (i - 1) from
\* index i on.
RECURSIVE CompactTouches(_, _)
CompactTouches(i, size) ==
    IF i < size THEN {i - 1, i} \cup CompactTouches(i + 1, size) ELSE {}

\* Variant: keeps the entry of rank itself and drops the one after it.
FirstMessage_KeepSelf(msg, rank, n) ==
    [k \in 0 .. (n - 2) |-> IF k <= rank THEN msg[k] ELSE msg[k + 1]]

\* The first message: msg_arr without the entry of rank itself.
FirstMessage(msg, rank, n) ==
    [k \in 0 .. (n - 2) |-> IF k < rank THEN msg[k] ELSE msg[k + 1]]

\* The first count elements of an array, as the transport carries them.
Payload(arr, count) == [k \in 1 .. count |-> arr[k - 1]]

\* Variant: the received elements are not stored.
Store_Keep(arr, data) == arr

\* MPI_Recv stores the elements of the message at the front of the array.
Store(arr, data) ==
    [k \in DOMAIN arr |-> IF k < Len(data) THEN data[k + 1] ELSE arr[k]]

\* ------------------------------------------------------------------- Init
\* No call of compact_array outside the exchange is under way.
NoProbe == [called |-> FALSE, idx |-> 0, size |-> 0, arr |-> << >>,
            out |-> << >>, touched |-> {}]

InitCommon ==
    /\ res_arr = [r \in Ranks |-> [k \in Ranks |-> Unset]]
    /\ buf = [r \in Ranks |-> [k \in 0 .. (num_proc - 2) |-> Unset]]
    /\ round = [r \in Ranks |-> 0]
    /\ pc = [r \in Ranks |-> "init"]
    /\ chan = [s \in Ranks |-> [d \in Ranks |-> << >>]]
    /\ status = [r \in Ranks |-> 0]
    /\ writes = [r \in Ranks |-> [k \in Ranks |-> 0]]
    /\ nsent = [r \in Ranks |-> 0]
    /\ nrecv = [r \in Ranks |-> 0]
    /\ time_taken = [r \in Ranks |-> 0]
    /\ disp_time = [r \in Ranks |-> 0]
    /\ comm = [r \in Ranks |-> 0]
    /\ sent = [r \in Ranks |-> << >>]
    /\ rcvd = [r \in Ranks |-> << >>]
    /\ lost = << >>

\* The exchange on a clock where every call takes one tick from time 0.
Init ==
    /\ num_proc \in 1 .. MaxN
    /\ msg_arr \in MsgInputs(num_proc)
    /\ dur = [k \in DurKeys |-> 1]
    /\ now = [r \in Ranks |-> 0]
    /\ mode = "eager"
    /\ probe = NoProbe
    /\ InitCommon

\* The exchange over either kind of blocking send: one that returns once the
\* message is buffered, and one that returns only once the receive is posted.
InitModes ==
    /\ num_proc \in 1 .. MaxN
    /\ msg_arr \in MsgInputs(num_proc)
    /\ dur = [k \in DurKeys |-> 1]
    /\ now = [r \in Ranks |-> 0]
    /\ mode \in {"eager", "rendezvous"}
    /\ probe = NoProbe
    /\ InitCommon

\* The exchange of one input on every clock: the calls take 1 .. MaxTick
\* ticks each and the function is entered at time 0 or later.
InitTimed ==
    /\ num_proc \in 1 .. MaxN
    /\ msg_arr = DistinctMsg(num_proc, 1)
    /\ dur \in [DurKeys -> 1 .. MaxTick]
    /\ \E start \in 0 .. MaxTick : now = [r \in Ranks |-> start]
    /\ mode = "eager"
    /\ probe = NoProbe
    /\ InitCommon

\* compact_array alone: every array of MaxLen elements in 1 .. MaxElem,
\* every size up to the capacity and every index below the size.
CompactInit ==
    /\ num_proc = 1
    /\ msg_arr = DistinctMsg(1, 1)
    /\ dur = [k \in DurKeys |-> 1]
    /\ now = [r \in Ranks |-> 0]
    /\ mode = "eager"
    /\ InitCommon
    /\ \E size \in 1 .. MaxLen :
          \E idx \in 0 .. (size - 1) :
              \E arr \in [0 .. (MaxLen - 1) -> 1 .. MaxElem] :
                  probe = [called |-> FALSE, idx |-> idx, size |-> size,
                           arr |-> arr, out |-> arr, touched |-> {}]

\* ---------------------------------------------------------------- actions
\* Variant: the round loop tests its condition after the body (do-while), so
\* one round is entered whatever num_proc is.
Construct_LoopOnce(rank) ==
    /\ pc[rank] = "init"
    /\ time_taken' = [time_taken EXCEPT ![rank] = now[rank]]
    /\ buf' = [buf EXCEPT ![rank] = FirstMessage(msg_arr[rank], rank, num_proc)]
    /\ res_arr' = [res_arr EXCEPT ![rank][rank] = msg_arr[rank][rank]]
    /\ writes' = [writes EXCEPT ![rank][rank] = @ + 1]
    /\ round' = [round EXCEPT ![rank] = 1]
    /\ pc' = [pc EXCEPT ![rank] = "send"]
    /\ UNCHANGED <<num_proc, msg_arr, chan, status, nsent, nrecv, now, dur,
                   disp_time, comm, sent, rcvd, mode, lost, probe>>

\* Entry of all_to_all_personalized up to the round loop.
Construct(rank) ==
    /\ pc[rank] = "init"
    /\ time_taken' = [time_taken EXCEPT ![rank] = now[rank]]
    /\ buf' = [buf EXCEPT ![rank] = FirstMessage(msg_arr[rank], rank, num_proc)]
    /\ res_arr' = [res_arr EXCEPT ![rank][rank] = msg_arr[rank][rank]]
    /\ writes' = [writes EXCEPT ![rank][rank] = @ + 1]
    /\ round' = [round EXCEPT ![rank] = 1]
    /\ pc' = [pc EXCEPT ![rank] = IF 1 < num_proc THEN "send" ELSE "done"]
    /\ UNCHANGED <<num_proc, msg_arr, chan, status, nsent, nrecv, now, dur,
                   disp_time, comm, sent, rcvd, mode, lost, probe>>

\* Variant: a send that never waits for the receiver.
SendAccepted_Always(rank) == TRUE

\* Whether the blocking MPI_Send of rank can complete: an eager transport
\* takes the message at once, a rendezvous transport only once the receiver
\* has posted its receive.
SendAccepted(rank) ==
    \/ mode = "eager"
    \/ pc[SendTo(rank, num_proc)] = "recv"

\* First half of a round: MPI_Send, the clock bookkeeping and print_msg.
Send(rank) ==
    /\ pc[rank] = "send"
    /\ SendAccepted(rank)
    /\ LET send_to == SendTo(rank, num_proc)
           msg_size == MsgSize(num_proc, round[rank])
           sent_at == now[rank] + dur["send"]
           shown_at == sent_at + dur["print"]
       IN  /\ chan' = [chan EXCEPT ![rank][send_to] =
                         Append(@, [tag |-> rank,
                                    data |-> Payload(buf[rank], msg_size)])]
           /\ time_taken' = [time_taken EXCEPT ![rank] = sent_at - @]
           /\ disp_time' = [disp_time EXCEPT ![rank] = shown_at]
           /\ now' = [now EXCEPT ![rank] = shown_at]
           /\ comm' = [comm EXCEPT ![rank] = @ + dur["send"]]
           /\ sent' = [sent EXCEPT ![rank] =
                         Append(@, [to |-> send_to, tag |-> rank,
                                    data |-> Payload(buf[rank], msg_size)])]
    /\ nsent' = [nsent EXCEPT ![rank] = @ + 1]
    /\ pc' = [pc EXCEPT ![rank] = "recv"]
    /\ UNCHANGED <<num_proc, msg_arr, res_arr, buf, round, status, writes,
                   nrecv, dur, rcvd, mode, lost, probe>>

\* What a round does once MPI_Recv has returned with data: the store into
\* res_arr, compact_array, the clock bookkeeping, print_msg and the loop
\* increment.
Complete(rank, data) ==
    LET msg_size == MsgSize(num_proc, round[rank])
        origin == Origin(num_proc, rank, round[rank])
        data_index == DataIndex(origin, rank)
        received == Store(buf[rank], data)
        got_at == now[rank] + dur["recv"]
        elapsed == got_at - disp_time[rank]
    IN  /\ status' = [status EXCEPT ![rank] = Len(data)]
        /\ res_arr' = [res_arr EXCEPT ![rank][origin] = received[data_index]]
        /\ writes' = [writes EXCEPT ![rank][origin] = @ + 1]
        /\ buf' = [buf EXCEPT ![rank] =
                      compact_array(data_index, received, msg_size)]
        /\ disp_time' = [disp_time EXCEPT ![rank] = elapsed]
        /\ time_taken' = [time_taken EXCEPT ![rank] = @ + elapsed]
        /\ now' = [now EXCEPT ![rank] = got_at + dur["print"]]
        /\ comm' = [comm EXCEPT ![rank] = @ + dur["recv"]]
        /\ nrecv' = [nrecv EXCEPT ![rank] = @ + 1]
        /\ rcvd' = [rcvd EXCEPT ![rank] =
                      Append(@, [from |-> RecvFrom(rank, num_proc),
                                 count |-> msg_size, data |-> data])]
        /\ round' = [round EXCEPT ![rank] = @ + 1]
        /\ pc' = [pc EXCEPT ![rank] =
                    IF round[rank] + 1 < num_proc THEN "send" ELSE "done"]
        /\ UNCHANGED <<num_proc, msg_arr, nsent, dur, sent, mode, lost, probe>>

\* A receive that returns at once, with nothing, when no message is queued.
Recv_NoWait(rank) ==
    /\ pc[rank] = "recv"
    /\ LET recv_from == RecvFrom(rank, num_proc)
           queue == chan[recv_from][rank]
       IN  IF queue = << >>
           THEN /\ chan' = chan
                /\ Complete(rank, << >>)
           ELSE /\ Head(queue).tag = recv_from
                /\ Len(Head(queue).data) <= MsgSize(num_proc, round[rank])
                /\ chan' = [chan EXCEPT ![recv_from][rank] = Tail(@)]
                /\ Complete(rank, Head(queue).data)

\* Variant: a receive that takes the newest queued message, not the oldest.
Recv_Newest(rank) ==
    /\ pc[rank] = "recv"
    /\ LET recv_from == RecvFrom(rank, num_proc)
           queue == chan[recv_from][rank]
       IN  /\ queue # << >>
           /\ queue[Len(queue)].tag = recv_from
           /\ Len(queue[Len(queue)].data) <= MsgSize(num_proc, round[rank])
           /\ chan' = [chan EXCEPT ![recv_from][rank] =
                         SubSeq(@, 1, Len(@) - 1)]
           /\ Complete(rank, queue[Len(queue)].data)

\* Variant: a receive that takes any one of the queued messages.
Recv_AnyQueued(rank) ==
    /\ pc[rank] = "recv"
    /\ LET recv_from == RecvFrom(rank, num_proc)
           queue == chan[recv_from][rank]
       IN  \E j \in 1 .. Len(queue) :
               /\ queue[j].tag = recv_from
               /\ Len(queue[j].data) <= MsgSize(num_proc, round[rank])
               /\ chan' = [chan EXCEPT ![recv_from][rank] =
                             SubSeq(@, 1, j - 1) \o SubSeq(@, j + 1, Len(@))]
               /\ Complete(rank, queue[j].data)

\* Variant: a receive that refuses a message shorter than msg_size.
Recv_ExactCount(rank) ==
    /\ pc[rank] = "recv"
    /\ LET recv_from == RecvFrom(rank, num_proc)
           queue == chan[recv_from][rank]
       IN  /\ queue # << >>
           /\ Head(queue).tag = recv_from
           /\ Len(Head(queue).data) = MsgSize(num_proc, round[rank])
           /\ chan' = [chan EXCEPT ![recv_from][rank] = Tail(@)]
           /\ Complete(rank, Head(queue).data)

\* Second half of a round: the blocking MPI_Recv of the oldest message of
\* recv_from carrying the tag recv_from (a longer message than msg_size is a
\* truncation error of the transport and is not delivered), then Complete.
Recv(rank) ==
    /\ pc[rank] = "recv"
    /\ LET recv_from == RecvFrom(rank, num_proc)
           queue == chan[recv_from][rank]
       IN  /\ queue # << >>
           /\ Head(queue).tag = recv_from
           /\ Len(Head(queue).data) <= MsgSize(num_proc, round[rank])
           /\ chan' = [chan EXCEPT ![recv_from][rank] = Tail(@)]
           /\ Complete(rank, Head(queue).data)

\* A call compact_array(idx, arr, size) on its own.
CallCompact ==
    /\ ~probe.called
    /\ probe' = [probe EXCEPT
                    !.called = TRUE,
                    !.out = compact_array(probe.idx, probe.arr, probe.size),
                    !.touched = CompactTouches(probe.idx + 1, probe.size)]
    /\ UNCHANGED <<num_proc, msg_arr, res_arr, buf, round, pc, chan, status,
                   writes, nsent, nrecv, now, dur, time_taken, disp_time, comm,
                   sent, rcvd, mode, lost>>

\* The transport loses one queued message; it does so at most once.
Drop ==
    /\ lost = << >>
    /\ \E s \in Ranks, d \in Ranks :
          \E j \in 1 .. Len(chan[s][d]) :
              /\ chan' = [chan EXCEPT ![s][d] =
                            SubSeq(@, 1, j - 1) \o SubSeq(@, j + 1, Len(@))]
              /\ lost' = <<[src |-> s, dst |-> d, data |-> chan[s][d][j].data]>>
    /\ UNCHANGED <<num_proc, msg_arr, res_arr, buf, round, pc, status, writes,
                   nsent, nrecv, now, dur, time_taken, disp_time, comm, sent,
                   rcvd, mode, probe>>

\* One step of the process of the given rank.
Proc(rank) ==
    /\ rank \in Ranks
    /\ \/ Construct(rank)
       \/ Send(rank)
       \/ Recv(rank)

Next ==
    \/ \E rank \in Ranks : Construct(rank)
    \/ \E rank \in Ranks : Send(rank)
    \/ \E rank \in Ranks : Recv(rank)

Spec == Init /\ [][Next]_vars

TimedSpec == InitTimed /\ [][Next]_vars

\* The exchange over a transport that may lose one message.
LossyNext ==
    \/ Next
    \/ Drop

LossySpec == Init /\ [][LossyNext]_vars

\* The ranks keep running; the transport is under no obligation to lose.
LossyFairSpec ==
    LossySpec /\ \A rank \in 0 .. (MaxN - 1) : WF_vars(Proc(rank))

ModeSpec == InitModes /\ [][Next]_vars

ModeFairSpec ==
    ModeSpec /\ \A rank \in 0 .. (MaxN - 1) : WF_vars(Proc(rank))

CompactNext == CallCompact

CompactSpec == CompactInit /\ [][CompactNext]_vars

\* Every rank is an operating-system process of its own and keeps running.
FairSpec == Spec /\ \A rank \in 0 .. (MaxN - 1) : WF_vars(Proc(rank))

\* ------------------------------------------------------------ vocabulary
AllDone == \A r \in Ranks : pc[r] = "done"

\* No two entries of the input matrix carry the same value, so a value
\* identifies its origin and its destination.
DistinctInput ==
    \A a \in Ranks, b \in Ranks, c \in Ranks, d \in Ranks :
        msg_arr[a][b] = msg_arr[c][d] => (a = c /\ b = d)

Pred(r) == (r + num_proc - 1) % num_proc

Succ(r) == (r + 1) % num_proc

\* The elements of buf[r] that the next MPI_Send of r will carry.
Unsent(r) ==
    IF pc[r] = "send" THEN 0 .. (num_proc - round[r] - 1) ELSE {}

\* ------------------------------------------------------------------ C1
\* C1: once every rank has returned, the value rank b holds at res_arr[a]
\* is the value rank a held at msg_arr[b], for all ranks a and b.
Transpose ==
    AllDone => \A a \in Ranks, b \in Ranks : res_arr[b][a] = msg_arr[a][b]

\* The three-rank scenario: rows 10 20 30, 40 50 60, 70 80 90 transposed.
TransposeWitness ==
    /\ AllDone
    /\ num_proc = 3
    /\ msg_arr = DistinctMsg(3, 10)
    /\ res_arr[0] = [k \in 0 .. 2 |-> IF k = 0 THEN 10 ELSE IF k = 1 THEN 40 ELSE 70]
    /\ res_arr[1] = [k \in 0 .. 2 |-> IF k = 0 THEN 20 ELSE IF k = 1 THEN 50 ELSE 80]
    /\ res_arr[2] = [k \in 0 .. 2 |-> IF k = 0 THEN 30 ELSE IF k = 1 THEN 60 ELSE 90]

\* ------------------------------------------------------------------ C2
\* C2: no slot of res_arr is ever assigned twice, and a rank that has
\* finished its rounds has assigned every slot exactly once, leaving none
\* unset.
Completeness ==
    \A r \in Ranks :
        /\ \A k \in Ranks : writes[r][k] <= 1
        /\ pc[r] = "done" =>
              \A k \in Ranks : writes[r][k] = 1 /\ res_arr[r][k] # Unset

CompletenessWitness ==
    \E r \in Ranks :
        /\ num_proc = 4
        /\ pc[r] = "done"
        /\ nrecv[r] = 3
        /\ \A k \in Ranks : writes[r][k] = 1

\* ------------------------------------------------------------------ C3
\* C3: under fair scheduling of every rank over the buffering FIFO
\* transport, every rank eventually returns after exactly num_proc - 1
\* sends and num_proc - 1 receives.
Termination ==
    <>(\A r \in Ranks : /\ pc[r] = "done"
                        /\ nsent[r] = num_proc - 1
                        /\ nrecv[r] = num_proc - 1
                        /\ round[r] = num_proc)

TerminationWitness ==
    /\ num_proc = 4
    /\ \A r \in Ranks : pc[r] = "done" /\ nsent[r] = 3 /\ nrecv[r] = 3
    /\ \A s \in Ranks, d \in Ranks : chan[s][d] = << >>

\* ------------------------------------------------------------------ C4
\* C4: from the end of the initialization on, res_arr[rank] = msg_arr[rank]
\* at every rank, the slot has been assigned once only, no round targets it,
\* and the value a rank addresses to itself is in no buffer and no message.
SelfDelivery ==
    /\ \A r \in Ranks :
          /\ pc[r] # "init" =>
                /\ res_arr[r][r] = msg_arr[r][r]
                /\ writes[r][r] = 1
          /\ \A i \in 1 .. (num_proc - 1) : (num_proc + r - i) % num_proc # r
    /\ DistinctInput =>
          \A r \in Ranks :
              /\ \A q \in Ranks, k \in 0 .. (num_proc - 2) :
                    buf[q][k] # msg_arr[r][r]
              /\ \A s \in Ranks, d \in Ranks :
                    \A j \in 1 .. Len(chan[s][d]) :
                        \A k \in 1 .. Len(chan[s][d][j].data) :
                            chan[s][d][j].data[k] # msg_arr[r][r]

\* A rank that has gone through all its rounds and still holds its own value.
SelfDeliveryWitness ==
    /\ num_proc = 4
    /\ DistinctInput
    /\ \E r \in Ranks : /\ pc[r] = "done"
                        /\ nrecv[r] = 3
                        /\ writes[r][r] = 1
                        /\ res_arr[r][r] = msg_arr[r][r]

\* ------------------------------------------------------------------ C5
\* Destinations the values of origin o have not reached yet when they are
\* held by r: those farther from o along the ring than r is.
InTransit(o, r) ==
    {d \in Ranks : (d - o + num_proc) % num_proc > (r - o + num_proc) % num_proc}

\* C5: when rank r is about to send in round i, the first num_proc - i
\* elements of buf are the values of the one origin o = (r - i + 1) mod
\* num_proc for the destinations beyond r, in increasing order of
\* destination, none of them delivered yet and none addressed to r.
BufferContent ==
    \A r \in Ranks :
        pc[r] = "send" =>
            LET i == round[r]
                o == (r + num_proc - i + 1) % num_proc
                T == InTransit(o, r)
            IN  /\ Cardinality(T) = num_proc - i
                /\ r \notin T
                /\ o \notin T
                /\ \A d \in T :
                      /\ buf[r][Cardinality({e \in T : e < d})] = msg_arr[o][d]
                      /\ writes[d][o] = 0

\* A rank in the middle of the ring about to send in round 2: it holds two
\* values of its predecessor, one for a lower and one for a higher rank.
BufferContentWitness ==
    /\ num_proc = 4
    /\ DistinctInput
    /\ pc[2] = "send"
    /\ round[2] = 2
    /\ buf[2][0] = msg_arr[1][0]
    /\ buf[2][1] = msg_arr[1][3]

\* ------------------------------------------------------------------ C6
\* C6: in the round-i receive of rank r, with origin = (num_proc + r - i)
\* mod num_proc, the element of the arriving message at index origin (when
\* origin <= r) or 0 (otherwise) is the value origin addressed to r, it is
\* the value stored in res_arr[origin], and origin lies i hops behind r.
Extraction ==
    [][\A r \in Ranks :
          (pc[r] = "recv" /\ pc'[r] # "recv") =>
              LET i == round[r]
                  origin == (num_proc + r - i) % num_proc
                  dataIndex == IF origin <= r THEN origin ELSE 0
                  arrived == Head(chan[Pred(r)][r]).data
              IN  /\ Len(arrived) = num_proc - i
                  /\ arrived[dataIndex + 1] = msg_arr[origin][r]
                  /\ res_arr'[r][origin] = msg_arr[origin][r]
                  /\ writes'[r][origin] = writes[r][origin] + 1
                  /\ (r - origin + num_proc) % num_proc = i]_vars

\* Rank 2 of four after round 1: the value came from the middle of the
\* message (index 1 of 3).
ExtractionWitness ==
    /\ num_proc = 4
    /\ DistinctInput
    /\ pc[2] = "send"
    /\ round[2] = 2
    /\ writes[2][1] = 1
    /\ res_arr[2][1] = msg_arr[1][2]
    /\ writes[2][0] = 0

\* ------------------------------------------------------------------ C7
\* C7: round i sends num_proc - i elements and receives num_proc - i
\* elements; the round leaves one element fewer, which is the size of the
\* next send, and nothing after round num_proc - 1.  The first send finds
\* all num_proc - 1 elements of buf assigned.
ShrinkLaw ==
    \A r \in Ranks :
        /\ (pc[r] = "send" /\ round[r] = 1) =>
              \A k \in 0 .. (num_proc - 2) : buf[r][k] # Unset
        /\ \A j \in 1 .. Len(chan[r][Succ(r)]) :
              Len(chan[r][Succ(r)][j].data) =
                  num_proc - (nsent[r] - Len(chan[r][Succ(r)]) + j)
        /\ (pc[r] = "recv" /\ chan[Pred(r)][r] # << >>) =>
              Len(Head(chan[Pred(r)][r]).data) = num_proc - round[r]
        /\ nrecv[r] >= 1 =>
              /\ status[r] = num_proc - nrecv[r]
              /\ pc[r] = "send" => status[r] - 1 = num_proc - round[r]
              /\ pc[r] = "done" => status[r] - 1 = 0

\* A rank that received three elements in round 1 and queued two in round 2.
ShrinkLawWitness ==
    \E r \in Ranks :
        /\ num_proc = 4
        /\ pc[r] = "recv"
        /\ round[r] = 2
        /\ status[r] = 3
        /\ chan[r][Succ(r)] # << >>
        /\ Len(chan[r][Succ(r)][Len(chan[r][Succ(r)])].data) = 2

\* ------------------------------------------------------------------ C8
\* The places that hold a value: a slot of res_arr that has been assigned,
\* an element of a buffer still to be sent, an element of a message not yet
\* received, and an entry of msg_arr of a rank that has not yet built its
\* buffer (the value has not left its origin).
Places ==
    {<<"res", q[1], q[2], 0, 0>> : q \in
        {q \in Ranks \X Ranks : writes[q[1]][q[2]] >= 1}}
    \cup UNION {{<<"buf", r, k, 0, 0>> : k \in Unsent(r)} : r \in Ranks}
    \cup UNION {UNION {{<<"msg", q[1], q[2], j, k>> :
                          k \in 1 .. Len(chan[q[1]][q[2]][j].data)} :
                       j \in 1 .. Len(chan[q[1]][q[2]])} :
                q \in Ranks \X Ranks}
    \cup {<<"arr", q[1], q[2], 0, 0>> : q \in
        {q \in Ranks \X Ranks : pc[q[1]] = "init"}}

ValueAt(p) ==
    CASE p[1] = "res" -> res_arr[p[2]][p[3]]
      [] p[1] = "buf" -> buf[p[2]][p[3]]
      [] p[1] = "msg" -> chan[p[2]][p[3]][p[4]].data[p[5]]
      [] p[1] = "arr" -> msg_arr[p[2]][p[3]]

\* C8: in every state each value occupies as many places as msg_arr has
\* entries with that value (exactly one when the entries are distinct), a
\* delivered value sits in the res_arr of its destination at the slot of
\* its origin, each destination has num_proc values delivered or in
\* flight, and once all ranks have returned the values of all res_arr are
\* the values of all msg_arr, with the same multiplicities.
Conservation ==
    LET held == Places
        value == [p \in held |-> ValueAt(p)]
    IN  /\ Cardinality(held) = num_proc * num_proc
        /\ \A o \in Ranks, d \in Ranks :
              /\ Cardinality({p \in held : value[p] = msg_arr[o][d]}) =
                    Cardinality({q \in Ranks \X Ranks :
                                    msg_arr[q[1]][q[2]] = msg_arr[o][d]})
              /\ writes[d][o] >= 1 => res_arr[d][o] = msg_arr[o][d]
        /\ DistinctInput =>
              \A d \in Ranks :
                  Cardinality({p \in held :
                      \E o \in Ranks : value[p] = msg_arr[o][d]}) = num_proc
        /\ AllDone => \A p \in held : p[1] = "res"

\* Values in all three kinds of place at once: delivered, waiting in a buffer
\* and travelling in a message.
ConservationWitness ==
    /\ num_proc = 4
    /\ DistinctInput
    /\ \E p \in Places : p[1] = "res" /\ p[2] # p[3]
    /\ \E p \in Places : p[1] = "buf"
    /\ \E p \in Places : p[1] = "msg"
    /\ \A r \in Ranks : pc[r] # "init"

\* ------------------------------------------------------------------ C9
\* C9: the value a rank returns is the time it spent inside its MPI_Send and
\* MPI_Recv calls, summed over its rounds, for every num_proc >= 2.
TimingContract ==
    \A r \in Ranks :
        (num_proc >= 2 /\ pc[r] = "done") => time_taken[r] = comm[r]

\* ------------------------------------------------------------------ C10
\* C10 as stated: no rank has completed round i before every rank has
\* issued its round-i send.
FullRingDependency ==
    \A r \in Ranks, q \in Ranks : nrecv[r] <= nsent[q]

\* C10, amended: a rank r that has completed round i has itself issued
\* round i, and the rank k hops behind it has issued round i - k + 1, for
\* every k in 1 .. i; in particular its predecessor has issued round i.
ChainDependency ==
    \A r \in Ranks :
        /\ nrecv[r] <= nsent[r]
        /\ \A k \in 1 .. (num_proc - 1) :
              nrecv[r] - k + 1 <= nsent[(r + num_proc - k) % num_proc]

\* Rank 0 has completed round 1 although rank 1 has not issued any send.
ChainDependencyWitness ==
    /\ num_proc = 4
    /\ nrecv[0] = 1
    /\ nsent[3] = 1
    /\ nsent[1] = 0
    /\ pc[1] = "send"

\* ------------------------------------------------------------------ C11
\* C11: the i-th receive of rank r returns the message its predecessor sent
\* in the predecessor's round i (sent to r, tagged with the predecessor's
\* rank, num_proc - i elements, the count of the receive), and the queue
\* from the predecessor holds the predecessor's later sends in the order
\* they were made, however far the predecessor has run ahead.
RoundPairing ==
    \A r \in Ranks :
        LET p == Pred(r)
        IN  /\ Len(rcvd[r]) = nrecv[r]
            /\ Len(sent[p]) = nsent[p]
            /\ nrecv[r] + Len(chan[p][r]) = nsent[p]
            /\ \A i \in 1 .. Len(rcvd[r]) :
                  /\ rcvd[r][i].from = p
                  /\ rcvd[r][i].count = num_proc - i
                  /\ sent[p][i].to = r
                  /\ sent[p][i].tag = p
                  /\ rcvd[r][i].data = sent[p][i].data
                  /\ Len(rcvd[r][i].data) = num_proc - i
            /\ \A j \in 1 .. Len(chan[p][r]) :
                  chan[p][r][j] =
                      [tag |-> p, data |-> sent[p][nrecv[r] + j].data]

\* Rank 0 has run ahead: rank 1 has received its round-1 message while its
\* round-2 and round-3 messages are both queued, in that order.
RoundPairingWitness ==
    /\ num_proc = 4
    /\ DistinctInput
    /\ nsent[0] = 3
    /\ nrecv[1] = 1
    /\ Len(chan[0][1]) = 2
    /\ rcvd[1][1].data = sent[0][1].data
    /\ chan[0][1][1].data = sent[0][2].data
    /\ chan[0][1][2].data = sent[0][3].data

\* ------------------------------------------------------------------ C12
\* C12: every send of a rank goes to (rank + 1) mod num_proc with the rank
\* as tag, the i-th carrying num_proc - i elements; every receive names
\* (rank - 1 + num_proc) mod num_proc; no queue between other pairs is ever
\* used; a rank that has returned has made num_proc - 1 sends and as many
\* receives, and all ranks together num_proc * (num_proc - 1) sends.
RingOnly ==
    /\ \A r \in Ranks :
          /\ Len(sent[r]) <= num_proc - 1
          /\ Len(rcvd[r]) <= num_proc - 1
          /\ \A i \in 1 .. Len(sent[r]) :
                /\ sent[r][i].to = (r + 1) % num_proc
                /\ sent[r][i].tag = r
                /\ Len(sent[r][i].data) = num_proc - i
                /\ i > 1 => Len(sent[r][i].data) < Len(sent[r][i - 1].data)
          /\ \A i \in 1 .. Len(rcvd[r]) :
                rcvd[r][i].from = (r - 1 + num_proc) % num_proc
          /\ pc[r] = "done" =>
                /\ Len(sent[r]) = num_proc - 1
                /\ Len(rcvd[r]) = num_proc - 1
                /\ num_proc >= 2 => Len(sent[r][num_proc - 1].data) = 1
    /\ \A s \in Ranks, d \in Ranks :
          chan[s][d] # << >> => d = (s + 1) % num_proc
    /\ AllDone =>
          Cardinality(UNION {{<<r, i>> : i \in 1 .. Len(sent[r])} : r \in Ranks})
              = num_proc * (num_proc - 1)

\* Four ranks have returned: twelve sends, of 3, 2 and 1 elements each.
RingOnlyWitness ==
    /\ num_proc = 4
    /\ AllDone
    /\ \A r \in Ranks :
          /\ Len(sent[r]) = 3
          /\ Len(sent[r][1].data) = 3
          /\ Len(sent[r][2].data) = 2
          /\ Len(sent[r][3].data) = 1
          /\ sent[r][3].to = Succ(r)

\* ------------------------------------------------------------------ C13
\* C13: a single process makes no send and no receive, executes no round,
\* and returns with res_arr[0] = msg_arr[0].
SingleProcess ==
    num_proc = 1 =>
        /\ nsent[0] = 0
        /\ nrecv[0] = 0
        /\ sent[0] = << >>
        /\ rcvd[0] = << >>
        /\ chan[0][0] = << >>
        /\ pc[0] \in {"init", "done"}
        /\ pc[0] = "done" =>
              /\ res_arr[0][0] = msg_arr[0][0]
              /\ writes[0][0] = 1
              /\ round[0] = 1
              /\ buf[0] = << >>

\* The single process has returned with the one value it was given.
SingleProcessWitness ==
    /\ num_proc = 1
    /\ pc[0] = "done"
    /\ msg_arr[0][0] = 10
    /\ res_arr[0][0] = 10
    /\ nsent[0] = 0

\* ------------------------------------------------------------------ C14
\* One round of the exchange run in lockstep: every rank sends, then every
\* rank receives what its predecessor sent, stores and compacts.
RefRound(n, st, i) ==
    LET arrived(r) ==
            Store(st.buf[r], Payload(st.buf[RecvFrom(r, n)], MsgSize(n, i)))
        origin(r) == Origin(n, r, i)
        index(r) == DataIndex(origin(r), r)
    IN  [buf |-> [r \in 0 .. (n - 1) |->
                    compact_array(index(r), arrived(r), MsgSize(n, i))],
         res |-> [r \in 0 .. (n - 1) |->
                    [st.res[r] EXCEPT ![origin(r)] = arrived(r)[index(r)]]]]

\* The state of all ranks after k lockstep rounds on the input msg.
RECURSIVE RefRun(_, _, _)
RefRun(n, msg, k) ==
    IF k = 0
    THEN [buf |-> [r \in 0 .. (n - 1) |-> FirstMessage(msg[r], r, n)],
          res |-> [r \in 0 .. (n - 1) |->
                     [j \in 0 .. (n - 1) |-> IF j = r THEN msg[r][r] ELSE Unset]]]
    ELSE RefRound(n, RefRun(n, msg, k - 1), k)

\* C14: whatever the interleaving, a rank that has completed k rounds holds
\* the res_arr (and, between rounds, the buf) it holds after k rounds of
\* the lockstep run on the same input; so every execution ends with the
\* same res_arr at every rank.
Determinism ==
    /\ \A r \in Ranks :
          pc[r] # "init" =>
              LET ref == RefRun(num_proc, msg_arr, nrecv[r])
              IN  /\ res_arr[r] = ref.res[r]
                  /\ pc[r] \in {"send", "done"} => buf[r] = ref.buf[r]
    /\ AllDone => res_arr = RefRun(num_proc, msg_arr, num_proc - 1).res

\* A schedule far from lockstep: rank 0 has returned while its successor
\* has not completed a single round.
DeterminismWitness ==
    /\ num_proc = 4
    /\ DistinctInput
    /\ pc[0] = "done"
    /\ nrecv[1] = 0
    /\ res_arr[0] = RefRun(4, msg_arr, 3).res[0]

\* ------------------------------------------------------------------ C15
\* C15: no step writes msg_arr, and every step is the step of one rank r
\* that leaves res_arr, buf, the round counter and the position of every
\* other rank as they were and changes no queue other than the one from r
\* to its successor and the one from its predecessor to r.
Frame ==
    [][/\ msg_arr' = msg_arr
       /\ num_proc' = num_proc
       /\ \E r \in Ranks :
             /\ \A q \in Ranks \ {r} :
                   /\ res_arr'[q] = res_arr[q]
                   /\ buf'[q] = buf[q]
                   /\ round'[q] = round[q]
                   /\ pc'[q] = pc[q]
             /\ \A s \in Ranks, d \in Ranks :
                   chan'[s][d] # chan[s][d] =>
                       \/ (s = r /\ d = (r + 1) % num_proc)
                       \/ (s = (r - 1 + num_proc) % num_proc /\ d = r)]_vars

\* Rank 0 has sent twice and received once while rank 1 has not started:
\* the memory of rank 1 is untouched and the input is as it was given.
FrameWitness ==
    /\ num_proc = 4
    /\ msg_arr = DistinctMsg(4, 1)
    /\ pc[0] = "recv"
    /\ nrecv[0] = 1
    /\ Len(chan[0][1]) = 2
    /\ pc[1] = "init"
    /\ \A k \in Ranks : res_arr[1][k] = Unset
    /\ \A k \in 0 .. 2 : buf[1][k] = Unset

\* ------------------------------------------------------------------ C16
\* C16: in every round i of every rank the origin lies in 0 .. num_proc - 1
\* and is not the rank itself, and the index the value is taken from lies
\* in 0 .. num_proc - i - 1, inside the elements received in that round.
NoIndexViolation ==
    \A r \in Ranks :
        pc[r] \in {"send", "recv"} =>
            LET i == round[r]
                origin == Origin(num_proc, r, i)
                data_index == DataIndex(origin, r)
                queue == chan[Pred(r)][r]
            IN  /\ i \in 1 .. (num_proc - 1)
                /\ origin \in 0 .. (num_proc - 1)
                /\ origin # r
                /\ 0 <= data_index
                /\ data_index < num_proc - i
                /\ (pc[r] = "recv" /\ queue # << >>) =>
                      data_index < Len(Head(queue).data)

\* The largest index of all: rank 3 of four in round 1 takes element 2 of 3.
NoIndexViolationWitness ==
    /\ num_proc = 4
    /\ pc[3] = "recv"
    /\ round[3] = 1
    /\ chan[2][3] # << >>
    /\ DataIndex(Origin(4, 3, 1), 3) = 2
    /\ Len(Head(chan[2][3]).data) = 3

\* ------------------------------------------------------------------ C17
\* C17: compact_array(idx, arr, size) with 0 <= idx < size leaves the
\* elements before idx as they were, moves every element of idx + 1 ..
\* size - 1 one place down, leaves the elements from size on as they were,
\* and reads and writes no index outside 0 .. size - 1.
Compaction ==
    probe.called =>
        /\ DOMAIN probe.out = DOMAIN probe.arr
        /\ \A j \in 0 .. (probe.idx - 1) : probe.out[j] = probe.arr[j]
        /\ \A j \in probe.idx .. (probe.size - 2) :
              probe.out[j] = probe.arr[j + 1]
        /\ \A j \in probe.size .. (MaxLen - 1) : probe.out[j] = probe.arr[j]
        /\ probe.touched \subseteq 0 .. (probe.size - 1)

\* The middle one of three elements removed from an array of capacity four.
CompactionWitness ==
    /\ probe.called
    /\ probe.idx = 1
    /\ probe.size = 3
    /\ probe.arr = [j \in 0 .. 3 |-> IF j = 3 THEN 1 ELSE j + 1]
    /\ probe.out = [j \in 0 .. 3 |-> IF j = 0 THEN 1 ELSE IF j = 3 THEN 1 ELSE 3]
    /\ probe.touched = {1, 2}

\* ------------------------------------------------------------------ C18
\* The messages the transport lost on the link from r to its successor.
LostOn(r) ==
    {k \in 1 .. Len(lost) : lost[k].src = r /\ lost[k].dst = Succ(r)}

\* The ranks whose incoming link lost a message.
Bereft == {lost[k].dst : k \in 1 .. Len(lost)}

\* Rank s sits in MPI_Recv with nothing queued for it.
Starved(s) == pc[s] = "recv" /\ chan[Pred(s)][s] = << >>

NoRecoveryState ==
    /\ \A r \in Ranks :
          /\ nsent[r] = Len(sent[r])
          /\ nsent[r] <= num_proc - 1
          /\ \A i \in 1 .. Len(sent[r]) :
                Len(sent[r][i].data) = MsgSize(num_proc, i)
          /\ nrecv[Succ(r)] + Len(chan[r][Succ(r)]) + Cardinality(LostOn(r))
                = nsent[r]
    /\ \A s \in Bereft :
          /\ pc[s] # "done"
          /\ nrecv[s] <= num_proc - 2
    /\ \A q \in Ranks :
          (pc[q] = "recv" /\ chan[Pred(q)][q] # << >>) => ENABLED Recv(q)

\* C18: when the transport loses one message on the link from r to its
\* successor s, every rank still sends each round's message exactly once
\* (nothing is sent again), s receives at most num_proc - 2 messages and
\* does not return, s ends up for ever in MPI_Recv with nothing queued, and
\* whatever is queued for a receiving rank, a shorter message included, is
\* delivered to it as the message of its round.
NoRecovery ==
    /\ []NoRecoveryState
    /\ (lost # << >>) ~> [](\A s \in Bereft : Starved(s))

\* Of four ranks, rank 1 lost the three-element first message of rank 0 and
\* took the two-element second one in its place as its round-1 message.
NoRecoveryWitness ==
    /\ num_proc = 4
    /\ Len(lost) = 1
    /\ lost[1].src = 0
    /\ lost[1].dst = 1
    /\ Len(lost[1].data) = 3
    /\ nrecv[1] = 1
    /\ rcvd[1][1].count = 3
    /\ Len(rcvd[1][1].data) = 2
    /\ writes[1][0] = 1

\* ------------------------------------------------------------------ C19
\* Every rank waits in its round-1 MPI_Send and none has sent or received.
AllBlockedInSend ==
    \A r \in Ranks :
        /\ pc[r] = "send"
        /\ round[r] = 1
        /\ nsent[r] = 0
        /\ nrecv[r] = 0

SendBeforeReceiveState ==
    /\ \A r \in Ranks :
          /\ pc[r] = "send" => nsent[r] = nrecv[r]
          /\ pc[r] = "recv" => nsent[r] = nrecv[r] + 1
          /\ pc[r] = "done" => nsent[r] = nrecv[r]
          /\ nsent[r] = Len(sent[r])
          /\ nrecv[r] = Len(rcvd[r])
    /\ (mode = "rendezvous" /\ num_proc >= 2) =>
          /\ \A r \in Ranks :
                /\ pc[r] \in {"init", "send"}
                /\ round[r] <= 1
                /\ nsent[r] = 0
                /\ nrecv[r] = 0
          /\ AllBlockedInSend => ~ENABLED Next
    /\ (AllDone /\ num_proc >= 2) => mode = "eager"

\* C19: each rank has issued the send of a round before the receive of that
\* round; hence over a send that returns only once the matching receive is
\* posted, with two ranks or more, no rank ever sends or receives anything,
\* all ranks come to wait in their round-1 send at the same time and stay
\* there with no step left to take, and a run that ends had a buffering send.
SendBeforeReceive ==
    /\ []SendBeforeReceiveState
    /\ (mode = "rendezvous" /\ num_proc >= 2) ~> []AllBlockedInSend

\* Four ranks over a rendezvous send, all of them waiting in round 1.
SendBeforeReceiveWitness ==
    /\ mode = "rendezvous"
    /\ num_proc = 4
    /\ AllBlockedInSend
    /\ \A r \in Ranks : buf[r] = FirstMessage(msg_arr[r], r, 4)
    /\ ~ENABLED Next

\* ------------------------------------------------------------------ C20
\* The slots of res_arr that rank r has stored into so far.
Written(r) == {k \in Ranks : writes[r][k] > 0}

\* The origins of the rounds 0 .. i of rank r, round 0 being its own value.
Filled(r, i) == {(r - j + num_proc) % num_proc : j \in 0 .. i}

\* C20: a rank that has completed round i (round 0 is the store of its own
\* value) has stored into exactly the slots (rank - j) mod num_proc for
\* j = 0 .. i, once each; each of them holds the value msg_arr[origin][rank]
\* it has at the end, and every other slot is as it was at the start.
FillOrder ==
    \A r \in Ranks :
        pc[r] # "init" =>
            /\ Written(r) = Filled(r, nrecv[r])
            /\ Cardinality(Written(r)) = nrecv[r] + 1
            /\ \A k \in Ranks :
                  IF k \in Written(r)
                  THEN writes[r][k] = 1 /\ res_arr[r][k] = msg_arr[k][r]
                  ELSE res_arr[r][k] = Unset

\* Rank 1 of four after two rounds: slots 1, 0 and 3 stored, slot 2 not yet.
FillOrderWitness ==
    /\ num_proc = 4
    /\ DistinctInput
    /\ pc[1] = "send"
    /\ nrecv[1] = 2
    /\ Written(1) = {0, 1, 3}
    /\ res_arr[1][3] = msg_arr[3][1]
    /\ res_arr[1][2] = Unset

====
